---- MODULE Spec2Model ----
(***************************************************************************)
(* A model of the slide-puzzle core: board geometry (utils.rs, board.rs), *)
(* the click handler trigger_field (board.rs), the legal-move derivation  *)
(* get_swappable_neighbours (utils.rs), the breadth-first solver          *)
(* find_swap_order (solver/optimal.rs, duplicated in solver.rs), the      *)
(* shuffle sequence of board.rs as section 4.4 of the specification has   *)
(* it, and the SlidePuzzle component that builds and changes the board    *)
(* (slide_puzzle.rs).                                                     *)
(*                                                                         *)
(* Indices, rows and columns are the 0-based numbers of the Rust code; a  *)
(* board (Vec<u8>) is a TLA+ sequence, so cell idx of board f is f[idx+1]. *)
(***************************************************************************)
EXTENDS Integers, Sequences, FiniteSets, TLC

VARIABLES
    width,              \* SlidePuzzle.width / the width argument
    height,             \* SlidePuzzle.height / the height argument
    fields,             \* SlidePuzzle.fields / the fields argument
    pc,                 \* position of the running operation
    from_solved,        \* the board was obtained from the solved one by legal swaps only
    num_swaps,          \* number of swaps and clicks applied to the board so far
    states_to_explore,  \* find_swap_order: the FIFO frontier
    parent_map,         \* find_swap_order: state hash -> <<parent hash, last swap>>
    num_iterations,     \* find_swap_order: number of states popped
    next_hash,          \* find_swap_order: cursor of the trace back
    swaps,              \* find_swap_order: swaps collected by the trace back
    swap_order,         \* find_swap_order: the returned Vec<(usize, usize)>
    clicked_idx,        \* trigger_field: the clicked index of the last click
    clicked_fields,     \* trigger_field: the fields the last click was made on
    outcome,            \* "ok" or "panic" for the last click, call or build, else "none"
    empty_field_idx,    \* get_swappable_neighbours: the empty_field_idx argument
    swappable,          \* get_swappable_neighbours: the returned Vec<usize>
    solution_applied,   \* the board is the one the last solution was applied to
    move_count,         \* get_shuffle_sequence: the number of swaps asked for
    virtual_empty,      \* get_shuffle_sequence: the empty field after the swaps so far
    shuffle_sequence,   \* get_shuffle_sequence: the swaps chosen so far
    overflow_checks,    \* the build panics on integer overflow (debug) or wraps (release)
    arg_num_elements,   \* initialize_fields: the num_elements argument
    arg_row,            \* in_bounds, get_idx_from_row_col: the row argument
    arg_col,            \* in_bounds, get_idx_from_row_col: the col argument
    arg_idx,            \* get_row_col_from_idx: the idx argument
    arg_value,          \* get_idx_of_val: the value argument
    result,             \* what the last call of a function on its own returned
    pending,            \* the timeouts set and not yet fired, in the order they fire
    handled,            \* the last Swap message handled, with the fields it met
    handled_swaps,      \* the Swap messages handled since the last click on Solve
    quiet               \* Solve was clicked with no timeout pending, and no user
                        \* event has happened since

vars == <<width, height, fields, pc, from_solved, num_swaps, states_to_explore,
          parent_map, num_iterations, next_hash, swaps, swap_order,
          clicked_idx, clicked_fields, outcome, empty_field_idx, swappable,
          solution_applied, move_count, virtual_empty, shuffle_sequence,
          overflow_checks, arg_num_elements, arg_row, arg_col, arg_idx, arg_value,
          result, pending, handled, handled_swaps, quiet>>

solver_vars == <<states_to_explore, parent_map, num_iterations, next_hash, swaps,
                 swap_order>>

click_vars == <<clicked_idx, clicked_fields, outcome>>

neighbour_vars == <<empty_field_idx, swappable>>

shuffle_vars == <<move_count, virtual_empty, shuffle_sequence>>

timer_vars == <<pending, handled, handled_swaps, quiet>>

call_vars == <<overflow_checks, arg_num_elements, arg_row, arg_col, arg_idx,
               arg_value, result>>

-----------------------------------------------------------------------------
(* Bounds of the model and program constants *)

\* u8::MAX, the value of the empty field
U8_MAX == 255

\* widest and tallest board given to the solver
MaxWidth == 3
MaxHeight == 3

\* most legal swaps applied to the solved board before solving
MaxScramble == 5

\* most legal swaps between the solved board and a board whose solving is
\* followed to its end, and most cells of such a board
MaxTerminateScramble == 3
MaxTerminateCells == 9

\* widest, tallest and largest board whose search is followed step by step, and
\* most legal swaps between the solved board and such a board
MaxSearchWidth == 3
MaxSearchHeight == 3
MaxSearchCells == 9
MaxSearchScramble == 4

\* most cells of a board whose tiles are exchanged before solving (malformed input)
MaxMalformedCells == 4

\* widest and tallest board a shuffle sequence is computed for, and the most
\* swaps asked for
ShuffleMaxWidth == 3
ShuffleMaxHeight == 3
MaxMoveCount == 4

\* the delay between two timeouts of a granular shuffle and of a solution (ms)
SHUFFLE_INTERVAL_MS == 250
SOLVE_INTERVAL_MS == 500

\* largest width, height and number of fields of the component with its
\* timeouts, the most user events on it, and the number of swaps of one shuffle
\* (20 in the callbacks)
ComponentMaxSide == 2
ComponentMaxCells == 4
MaxUserEvents == 3
ShuffleClickMoves == 2

\* widest and tallest board with clicks, shuffle swaps and solutions mixed, and
\* the most cells of such a board
PlayMaxWidth == 3
PlayMaxHeight == 3
MaxPlayCells == 6

\* how far below 0 and beyond the board the coordinates given to in_bounds lie
MaxOutside == 1

\* longest slice searched by get_idx_of_val called on its own, and the largest
\* value in the slice and searched for
MaxSliceLen == 4
MaxSliceValue == 2

\* most cells asked of initialize_fields called on its own
MaxNumElements == 257

\* largest width and height given to the component as property or as update
MaxSide == 17

\* widest and tallest board of the geometry and click checks
GeoMaxWidth == 4
GeoMaxHeight == 4

\* most swaps and clicks applied to one board of the click checks
MaxPlay == 3

\* how far beyond the board a clicked index may lie
MaxBeyond == 4

-----------------------------------------------------------------------------
(* Slices and vectors *)

\* Option<u8>
Some(v) == <<v>>
None == <<>>

\* fields.get(idx): the cell, or None beyond the slice
Get(f, idx) == IF idx >= 0 /\ idx < Len(f) THEN Some(f[idx + 1]) ELSE None

\* cell a is overwritten with cell b, and cell b keeps its value
SliceSwapOverwrites(f, a, b) == [i \in 1..Len(f) |-> IF i = a + 1 THEN f[b + 1] ELSE f[i]]

\* slice::swap(a, b) with both indices inside the slice
SliceSwap(f, a, b) ==
    [i \in 1..Len(f) |-> IF i = a + 1 THEN f[b + 1]
                         ELSE IF i = b + 1 THEN f[a + 1]
                         ELSE f[i]]

\* the collected swaps left in trace-back order
RevForgotten(s) == s

\* Iterator::rev().collect()
Rev(s) == [i \in 1..Len(s) |-> s[Len(s) + 1 - i]]

Min(a, b) == IF a <= b THEN a ELSE b

\* how a call ends: with the returned value, or in a panic
Returns(v) == [panicked |-> FALSE, value |-> v]
Panics == [panicked |-> TRUE, value |-> <<>>]

\* a Result<usize, Error>: Ok(v), or Err with its message
Ok(v) == [is_ok |-> TRUE, value |-> v, error |-> ""]
Err(message) == [is_ok |-> FALSE, value |-> 0, error |-> message]

\* a - b on u8: an overflow panics where the build checks overflows and wraps
\* where it does not
U8Sub(a, b, checks) ==
    IF a >= b THEN Returns(a - b)
    ELSE IF checks THEN Panics
    ELSE Returns((a - b) % (U8_MAX + 1))

\* no shuffle sequence is being computed
NoShuffle ==
    /\ move_count = 0
    /\ virtual_empty = 0
    /\ shuffle_sequence = <<>>

\* no timeout has been set and no Swap message handled
NoTimers ==
    /\ pending = <<>>
    /\ handled = <<>>
    /\ handled_swaps = <<>>
    /\ quiet = FALSE

\* no function has been called on its own
NoCall ==
    /\ overflow_checks = TRUE
    /\ arg_num_elements = 0
    /\ arg_row = 0
    /\ arg_col = 0
    /\ arg_idx = 0
    /\ arg_value = 0
    /\ result = Returns(<<>>)

-----------------------------------------------------------------------------
(* utils.rs *)

get_row_col_from_idx(idx, w) == <<idx \div w, idx % w>>

\* row and column taken for each other
get_idx_from_col_row(row, col, w) == col * w + row

get_idx_from_row_col(row, col, w) == row * w + col

\* width and height taken for each other
in_bounds_transposed(row, col, w, h) == 0 <= row /\ row < w /\ 0 <= col /\ col < h

\* the row is compared with the height and the column with the width
in_bounds(row, col, w, h) == 0 <= row /\ row < h /\ 0 <= col /\ col < w

\* Iterator::position of the last occurrence instead of the first
position_last(slice, value) ==
    IF \E i \in 1..Len(slice) : slice[i] = value
    THEN Some((CHOOSE i \in 1..Len(slice) :
                   slice[i] = value /\ \A j \in (i + 1)..Len(slice) : slice[j] # value) - 1)
    ELSE None

\* Iterator::position: the 0-based index of the first occurrence, or None
position(slice, value) ==
    IF \E i \in 1..Len(slice) : slice[i] = value
    THEN Some((CHOOSE i \in 1..Len(slice) :
                   slice[i] = value /\ \A j \in 1..(i - 1) : slice[j] # value) - 1)
    ELSE None

\* the position as Ok, or the error "Value not found"
get_idx_of_val(slice, value) ==
    LET found == position(slice, value)
    IN  IF found # None THEN Ok(found[1]) ELSE Err("Value not found")

\* the call of initialize_fields in a build with or without overflow checks:
\* num_elements - 1 is computed on u8, and panics or wraps for num_elements = 0
initialize_fields_built(num_elements, checks) ==
    LET n == Min(num_elements, U8_MAX)
        last == U8Sub(n, 1, checks)
    IN  IF last.panicked THEN Panics
        ELSE Returns([i \in 1..last.value |-> i - 1] \o <<U8_MAX>>)

\* for 1 <= num_elements: tiles 0 .. n-2, then the empty field
initialize_fields(num_elements) == initialize_fields_built(num_elements, TRUE).value

\* the deltas in another order: left, right, up, down
DeltasLeftFirst == << <<0, -1>>, <<0, 1>>, <<-1, 0>>, <<1, 0>> >>

\* the (delta_row, delta_col) array: up, down, left, right
Deltas == << <<-1, 0>>, <<1, 0>>, <<0, -1>>, <<0, 1>> >>

RECURSIVE NeighboursFrom(_, _, _, _, _)
NeighboursFrom(i, row, col, w, h) ==
    IF i > Len(Deltas) THEN <<>>
    ELSE LET neighbour_row == row + Deltas[i][1]
             neighbour_col == col + Deltas[i][2]
             rest == NeighboursFrom(i + 1, row, col, w, h)
         IN  IF in_bounds(neighbour_row, neighbour_col, w, h)
             THEN <<get_idx_from_row_col(neighbour_row, neighbour_col, w)>> \o rest
             ELSE rest

\* the Vec of the returned Ok; the division by a zero width panics
get_swappable_neighbours(w, h, e) ==
    IF w = 0 THEN Panics
    ELSE LET rc == get_row_col_from_idx(e, w)
         IN  Returns(NeighboursFrom(1, rc[1], rc[2], w, h))

\* board::get_empty_field_idx, imported by the solver: the index of u8::MAX
get_empty_field_idx(f) == get_idx_of_val(f, U8_MAX).value

-----------------------------------------------------------------------------
(* board.rs *)

board_get_row_col_from_idx(idx, w) == <<idx \div w, idx % w>>

board_get_idx_from_row_col(row, col, w) == row * w + col

\* board.rs compares the row with the width and the column with the height
board_in_bounds(row, col, w, h) == 0 <= row /\ row < w /\ 0 <= col /\ col < h

\* the for loop of trigger_field from the i-th delta on, f being the fields so
\* far; slice::swap panics on an index beyond the slice
RECURSIVE TriggerLoop(_, _, _, _, _, _, _)
TriggerLoop(i, f, row, col, w, h, clicked) ==
    IF i > Len(Deltas) THEN Returns(f)
    ELSE LET neighbour_row == row + Deltas[i][1]
             neighbour_col == col + Deltas[i][2]
             idx == board_get_idx_from_row_col(neighbour_row, neighbour_col, w)
         IN  IF /\ board_in_bounds(neighbour_row, neighbour_col, w, h)
                /\ Get(f, idx) = Some(U8_MAX)
             THEN IF clicked < Len(f)
                  THEN TriggerLoop(i + 1, SliceSwap(f, clicked, idx), row, col, w, h, clicked)
                  ELSE Panics
             ELSE TriggerLoop(i + 1, f, row, col, w, h, clicked)

\* the returned fields, or a panic; the division by a zero width panics
trigger_field(f, w, h, clicked) ==
    IF Get(f, clicked) = Some(U8_MAX) THEN Returns(f)
    ELSE IF w = 0 THEN Panics
    ELSE LET rc == board_get_row_col_from_idx(clicked, w)
         IN  TriggerLoop(1, f, rc[1], rc[2], w, h, clicked)

-----------------------------------------------------------------------------
(* solver/optimal.rs (solver.rs holds the same text) *)

RECURSIVE DebugList(_, _)
DebugList(f, i) ==
    IF i > Len(f) THEN ""
    ELSE (IF i > 1 THEN ", " ELSE "") \o ToString(f[i]) \o DebugList(f, i + 1)

\* format!("{:?}", &vec): "[0, 1, 255, 2]"
as_string_hash(f) == "[" \o DebugList(f, 1) \o "]"

initial_hash == as_string_hash(fields)
target_fields == initialize_fields(Len(fields))
target_hash == as_string_hash(target_fields)

NoMap == [k \in {} |-> <<>>]

\* HashMap::insert: the value of an existing key is replaced
MapInsert(map, key, value) ==
    [k \in (DOMAIN map) \cup {key} |-> IF k = key THEN value ELSE map[k]]

\* the pair the other way round
next_swap_reversed(e, neighbour_idx) == <<neighbour_idx, e>>

\* (empty_field_idx, neighbour_idx)
next_swap(e, neighbour_idx) == <<e, neighbour_idx>>

\* the tuple (fields, fields_hash, parent_hash, last_swap) of one neighbour
reachable_tuple(cur, neighbour_idx) ==
    LET swap == next_swap(cur.last_swap[2], neighbour_idx)
        next_fields == SliceSwap(cur.fields, swap[1], swap[2])
    IN  [fields |-> next_fields,
         hash |-> as_string_hash(next_fields),
         parent_hash |-> cur.hash,
         last_swap |-> swap]

reachable_tuples(cur) ==
    LET swappable_neighbours ==
            get_swappable_neighbours(width, height, cur.last_swap[2]).value
    IN  [i \in 1..Len(swappable_neighbours) |-> reachable_tuple(cur, swappable_neighbours[i])]

\* the filter on states seen before: the key is already in the map
Seen(map, elem_tuple) == elem_tuple.hash \in DOMAIN map

unseen_tuples(cur, map) ==
    SelectSeq(reachable_tuples(cur), LAMBDA elem_tuple : ~Seen(map, elem_tuple))

\* no early exit
AlreadySolvedNever == FALSE

\* the test of the early exit
AlreadySolved == initial_hash = target_hash

\* the new tuples put at the front: a stack instead of a queue
EnqueueFront(queue, tuples) == tuples \o queue

\* VecDeque::extend: the new tuples go to the back of the frontier
Enqueue(queue, tuples) == queue \o tuples

\* the call: the early exit for a solved board, else the seeded frontier
SolveCall ==
    /\ pc = "input"
    /\ IF AlreadySolved
       THEN /\ swap_order' = <<>>
            /\ pc' = "done"
            /\ UNCHANGED <<states_to_explore, parent_map>>
       ELSE LET e == get_empty_field_idx(fields)
            IN  /\ parent_map' = NoMap
                /\ states_to_explore' = << [fields |-> fields,
                                            hash |-> initial_hash,
                                            parent_hash |-> "",
                                            last_swap |-> <<e, e>>] >>
                /\ pc' = "search"
                /\ UNCHANGED swap_order
    /\ UNCHANGED <<width, height, fields, from_solved, num_swaps, num_iterations,
                   next_hash, swaps, click_vars, neighbour_vars, solution_applied,
                   shuffle_vars, timer_vars, call_vars>>

\* one iteration of the while-let loop over the frontier
SearchStep ==
    /\ pc = "search"
    /\ states_to_explore # <<>>
    /\ LET cur == Head(states_to_explore)
           map == MapInsert(parent_map, cur.hash, <<cur.parent_hash, cur.last_swap>>)
       IN  /\ num_iterations' = num_iterations + 1
           /\ parent_map' = map
           /\ IF cur.hash = target_hash
              THEN /\ states_to_explore' = Tail(states_to_explore)
                   /\ pc' = "extract"
              ELSE /\ states_to_explore' =
                          Enqueue(Tail(states_to_explore), unseen_tuples(cur, map))
                   /\ pc' = "search"
    /\ UNCHANGED <<width, height, fields, from_solved, num_swaps, next_hash, swaps,
                   swap_order, click_vars, neighbour_vars, solution_applied,
                   shuffle_vars, timer_vars, call_vars>>

\* pop_front returns None: the loop ends
FrontierEmpty ==
    /\ pc = "search"
    /\ states_to_explore = <<>>
    /\ pc' = "extract"
    /\ UNCHANGED <<width, height, fields, from_solved, num_swaps, states_to_explore,
                   parent_map, num_iterations, next_hash, swaps, swap_order,
                   click_vars, neighbour_vars, solution_applied,
                   shuffle_vars, timer_vars, call_vars>>

\* the match on parent_map.contains_key(&target_hash)
ExtractPath ==
    /\ pc = "extract"
    /\ IF target_hash \in DOMAIN parent_map
       THEN /\ swaps' = <<>>
            /\ next_hash' = target_hash
            /\ pc' = "trace"
            /\ UNCHANGED swap_order
       ELSE /\ swap_order' = <<>>
            /\ pc' = "done"
            /\ UNCHANGED <<swaps, next_hash>>
    /\ UNCHANGED <<width, height, fields, from_solved, num_swaps, states_to_explore,
                   parent_map, num_iterations, click_vars, neighbour_vars,
                   solution_applied, shuffle_vars, timer_vars, call_vars>>

\* the trace back ended at the placeholder parent of the first entry instead
ReachedPlaceholder(parent_hash) == parent_hash = ""

\* the test that ends the trace back: the parent is the initial state
ReachedInitial(parent_hash) == parent_hash = initial_hash

\* one iteration of the trace back from the target; the loop ends at the
\* entry whose parent is the initial state, or at a hash with no entry
TraceStep ==
    /\ pc = "trace"
    /\ IF next_hash \in DOMAIN parent_map
       THEN LET parent_hash == parent_map[next_hash][1]
                swap == parent_map[next_hash][2]
            IN  /\ swaps' = Append(swaps, swap)
                /\ IF ReachedInitial(parent_hash)
                   THEN /\ swap_order' = Rev(swaps')
                        /\ pc' = "done"
                        /\ UNCHANGED next_hash
                   ELSE /\ next_hash' = parent_hash
                        /\ UNCHANGED <<swap_order, pc>>
       ELSE /\ swap_order' = Rev(swaps)
            /\ pc' = "done"
            /\ UNCHANGED <<swaps, next_hash>>
    /\ UNCHANGED <<width, height, fields, from_solved, num_swaps, states_to_explore,
                   parent_map, num_iterations, click_vars, neighbour_vars,
                   solution_applied, shuffle_vars, timer_vars, call_vars>>

-----------------------------------------------------------------------------
(* slide_puzzle.rs: the board the solver is called on *)

\* SlidePuzzleMsg::Swap((a, b))
SwapMsg(a, b) == IF a # b THEN SliceSwap(fields, a, b) ELSE fields

\* a swap of a shuffle sequence is applied to the board: the empty field and
\* one of its swappable neighbours
ShuffleSwapWithin(limit) ==
    /\ pc = "input"
    /\ num_swaps < limit
    /\ LET e == get_empty_field_idx(fields)
           neighbours == get_swappable_neighbours(width, height, e).value
       IN  \E i \in 1..Len(neighbours) : fields' = SwapMsg(e, neighbours[i])
    /\ num_swaps' = num_swaps + 1
    /\ outcome' = "none"
    /\ solution_applied' = FALSE
    /\ UNCHANGED <<width, height, pc, from_solved, solver_vars, clicked_idx,
                   clicked_fields, neighbour_vars, shuffle_vars, timer_vars, call_vars>>

ShuffleSwap == ShuffleSwapWithin(MaxScramble)

\* board f after the Swap messages of the list, handled in the order of the list
RECURSIVE SwapMsgs(_, _)
SwapMsgs(f, list) ==
    IF list = <<>> THEN f
    ELSE LET a == list[1][1]
             b == list[1][2]
         IN  SwapMsgs(IF a # b THEN SliceSwap(f, a, b) ELSE f, Tail(list))

\* the solve callback after find_swap_order has returned: every swap of the
\* sequence is sent as a Swap message, the i-th after i * 500 ms, and the board
\* is the one these messages leave; the locals of the solver are gone
ApplySolution ==
    /\ pc = "done"
    /\ fields' = SwapMsgs(fields, swap_order)
    /\ solution_applied' = TRUE
    /\ pc' = "input"
    /\ states_to_explore' = <<>>
    /\ parent_map' = NoMap
    /\ num_iterations' = 0
    /\ next_hash' = ""
    /\ swaps' = <<>>
    /\ swap_order' = <<>>
    /\ UNCHANGED <<width, height, from_solved, num_swaps, click_vars, neighbour_vars,
                   shuffle_vars, timer_vars, call_vars>>

\* the tiles i and j of the solved board exchanged: a board no legal swap produces
Exchanged(n, i, j) == SliceSwap(initialize_fields(n), i, j)

MalformedBoards(n) ==
    IF n <= MaxMalformedCells
    THEN {Exchanged(n, i, j) : i, j \in 0..(n - 2)} \ {initialize_fields(n)}
    ELSE {}

InitSolve ==
    /\ width \in 1..MaxWidth
    /\ height \in 1..MaxHeight
    /\ \/ /\ fields = initialize_fields(width * height)
          /\ from_solved = TRUE
       \/ /\ fields \in MalformedBoards(width * height)
          /\ from_solved = FALSE
    /\ pc = "input"
    /\ num_swaps = 0
    /\ states_to_explore = <<>>
    /\ parent_map = NoMap
    /\ num_iterations = 0
    /\ next_hash = ""
    /\ swaps = <<>>
    /\ swap_order = <<>>
    /\ clicked_idx = 0
    /\ clicked_fields = <<>>
    /\ outcome = "none"
    /\ empty_field_idx = 0
    /\ swappable = <<>>
    /\ solution_applied = FALSE
    /\ NoShuffle
    /\ NoTimers
    /\ NoCall

NextSolve ==
    \/ ShuffleSwap
    \/ SolveCall
    \/ SearchStep
    \/ FrontierEmpty
    \/ ExtractPath
    \/ TraceStep
    \/ ApplySolution

SpecSolve == InitSolve /\ [][NextSolve]_vars

-----------------------------------------------------------------------------
(* slide_puzzle.rs: clicks on the board *)

\* board g is board f, or f after one swap of the empty field with a swappable
\* neighbour
SwapWasLegal(f, g) ==
    LET e == get_empty_field_idx(f)
        neighbours == get_swappable_neighbours(width, height, e).value
    IN  g = f \/ \E i \in 1..Len(neighbours) : g = SliceSwap(f, e, neighbours[i])

\* SlidePuzzleMsg::ClickedField(clicked_idx): the board becomes what
\* trigger_field returns; a panic ends the component
ClickedField ==
    /\ pc = "input"
    /\ num_swaps < MaxPlay
    /\ \E idx \in 0..(Len(fields) - 1 + MaxBeyond) :
          LET returned == trigger_field(fields, width, height, idx)
          IN  /\ clicked_idx' = idx
              /\ clicked_fields' = fields
              /\ IF returned.panicked
                 THEN /\ outcome' = "panic"
                      /\ pc' = "panic"
                      /\ UNCHANGED <<fields, from_solved>>
                 ELSE /\ outcome' = "ok"
                      /\ fields' = returned.value
                      /\ from_solved' = (from_solved /\ SwapWasLegal(fields, fields'))
                      /\ UNCHANGED pc
    /\ num_swaps' = num_swaps + 1
    /\ solution_applied' = FALSE
    /\ UNCHANGED <<width, height, solver_vars, neighbour_vars, shuffle_vars, timer_vars, call_vars>>

PlaySwap == ShuffleSwapWithin(MaxPlay)

InitClick ==
    /\ width \in 1..GeoMaxWidth
    /\ height \in 1..GeoMaxHeight
    /\ fields = initialize_fields(width * height)
    /\ from_solved = TRUE
    /\ pc = "input"
    /\ num_swaps = 0
    /\ states_to_explore = <<>>
    /\ parent_map = NoMap
    /\ num_iterations = 0
    /\ next_hash = ""
    /\ swaps = <<>>
    /\ swap_order = <<>>
    /\ clicked_idx = 0
    /\ clicked_fields = <<>>
    /\ outcome = "none"
    /\ empty_field_idx = 0
    /\ swappable = <<>>
    /\ solution_applied = FALSE
    /\ NoShuffle
    /\ NoTimers
    /\ NoCall

NextClick ==
    \/ PlaySwap
    \/ ClickedField

SpecClick == InitClick /\ [][NextClick]_vars

-----------------------------------------------------------------------------
(* slide_puzzle.rs: clicks, shuffle swaps and solutions on one board *)

InitPlay ==
    /\ InitClick
    /\ width <= PlayMaxWidth
    /\ height <= PlayMaxHeight
    /\ width * height <= MaxPlayCells

NextPlay ==
    \/ PlaySwap
    \/ ClickedField
    \/ SolveCall
    \/ SearchStep
    \/ FrontierEmpty
    \/ ExtractPath
    \/ TraceStep
    \/ ApplySolution

SpecPlay == InitPlay /\ [][NextPlay]_vars

-----------------------------------------------------------------------------
(* What the properties speak of, stated without the functions above *)

\* the canonical solved state of n cells: tile k at index k, the empty field last
Solved(n) == [i \in 1..n |-> IF i = n THEN U8_MAX ELSE i - 1]

\* cells a and b of a w x h board are orthogonal neighbours
Adjacent(a, b, w, h) ==
    /\ a \in 0..(w * h - 1)
    /\ b \in 0..(w * h - 1)
    /\ \/ a \div w = b \div w /\ (a - b = 1 \/ b - a = 1)
       \/ a % w = b % w /\ (a - b = w \/ b - a = w)

\* the move (a, b) is a legal SwapMove on board f: a is the empty cell and b
\* a cell next to it
LegalMove(f, move, w, h) ==
    /\ Adjacent(move[1], move[2], w, h)
    /\ f[move[1] + 1] = U8_MAX

\* board f after the first k moves of the list
RECURSIVE AfterMoves(_, _, _)
AfterMoves(f, moves, k) ==
    IF k = 0 THEN f
    ELSE LET g == AfterMoves(f, moves, k - 1)
         IN  [i \in 1..Len(g) |-> IF i = moves[k][1] + 1 THEN g[moves[k][2] + 1]
                                  ELSE IF i = moves[k][2] + 1 THEN g[moves[k][1] + 1]
                                  ELSE g[i]]

\* the boards one legal swap away from a board of the set
LegalSuccessors(boards, w, h) ==
    UNION { { AfterMoves(f, << <<a, b>> >>, 1) :
                  b \in {j \in 0..(w * h - 1) : Adjacent(a, j, w, h)} } :
            <<f, a>> \in { <<g, e>> \in boards \X (0..(w * h - 1)) : g[e + 1] = U8_MAX } }

\* the least number of legal swaps from a board of the set to the solved
\* board, or -1 when more than limit are needed
RECURSIVE MinSwaps(_, _, _, _, _)
MinSwaps(boards, k, limit, w, h) ==
    IF Solved(w * h) \in boards THEN k
    ELSE IF k >= limit THEN -1
    ELSE MinSwaps(boards \cup LegalSuccessors(boards, w, h), k + 1, limit, w, h)

Returned == pc = "done"

\* the search ran and the frontier emptied without the target being popped
Exhausted == Returned /\ num_iterations > 0 /\ target_hash \notin DOMAIN parent_map

-----------------------------------------------------------------------------
(* Properties of find_swap_order *)

\* C1: for a board reached from the solved board by legal swaps, applying the
\* returned moves in order yields the canonical solved state.
C1_MovesSolveBoard ==
    (Returned /\ from_solved) =>
        AfterMoves(fields, swap_order, Len(swap_order)) = Solved(width * height)

C1_Witness == Returned /\ from_solved /\ Len(swap_order) >= 3

\* C2: for a solvable board the returned list is as long as the least number
\* of legal swaps that reach the solved state.
C2_MinimalLength ==
    (Returned /\ from_solved) =>
        Len(swap_order) = MinSwaps({fields}, 0, num_swaps, width, height)

C2_Witness ==
    Returned /\ from_solved /\ num_swaps = 4 /\ Len(swap_order) = 2 /\ width = 3

\* C3: every returned move (a, b) is legal when it is applied: a holds the
\* empty field after the earlier moves and b is a neighbouring cell of a; the
\* placeholder (e, e) of the first frontier entry is not among the moves.
C3_MovesLegal ==
    Returned =>
        \A k \in 1..Len(swap_order) :
            /\ LegalMove(AfterMoves(fields, swap_order, k - 1), swap_order[k], width, height)
            /\ swap_order[k][1] # swap_order[k][2]

C3_Witness == Returned /\ Len(swap_order) >= 2 /\ height = 1

\* C4: when the frontier is exhausted without reaching the solved state, the
\* value returned differs from the empty list returned for a solved board.
C4_NoSolutionDistinct == Exhausted => swap_order # <<>>

\* C5: on a solved board the solver returns the empty list without searching:
\* nothing was popped from the frontier and nothing was put into the parent map.
C5_SolvedNoSearch ==
    (Returned /\ fields = Solved(width * height)) =>
        /\ swap_order = <<>>
        /\ num_iterations = 0
        /\ parent_map = NoMap
        /\ states_to_explore = <<>>

C5_Witness == Returned /\ fields = Solved(width * height) /\ num_swaps = 2 /\ width = 2

\* C6: the two literal cases: [0,1,MAX,2] on 2x2 gives [(2,3)], and
\* [MAX,1,2,0,3,5,6,4,7] on 3x3 gives [(0,3),(3,4),(4,7),(7,8)].
C6_LiteralCases ==
    /\ (Returned /\ width = 2 /\ height = 2 /\ fields = <<0, 1, U8_MAX, 2>>) =>
           swap_order = << <<2, 3>> >>
    /\ (Returned /\ width = 3 /\ height = 3
            /\ fields = <<U8_MAX, 1, 2, 0, 3, 5, 6, 4, 7>>) =>
           swap_order = << <<0, 3>>, <<3, 4>>, <<4, 7>>, <<7, 8>> >>

C6_Witness ==
    Returned /\ width = 3 /\ height = 3 /\ fields = <<U8_MAX, 1, 2, 0, 3, 5, 6, 4, 7>>

-----------------------------------------------------------------------------
(* get_swappable_neighbours called on its own *)

NeighboursCall ==
    /\ pc = "input"
    /\ LET returned == get_swappable_neighbours(width, height, empty_field_idx)
       IN  IF returned.panicked
           THEN /\ outcome' = "panic"
                /\ pc' = "panic"
                /\ UNCHANGED swappable
           ELSE /\ outcome' = "ok"
                /\ pc' = "done"
                /\ swappable' = returned.value
    /\ UNCHANGED <<width, height, fields, from_solved, num_swaps, solver_vars,
                   clicked_idx, clicked_fields, empty_field_idx, solution_applied,
                   shuffle_vars, timer_vars, call_vars>>

InitNeighbours ==
    /\ width \in 0..GeoMaxWidth
    /\ height \in 0..GeoMaxHeight
    /\ empty_field_idx \in 0..(width * height + MaxBeyond)
    /\ fields = <<>>
    /\ from_solved = TRUE
    /\ pc = "input"
    /\ num_swaps = 0
    /\ states_to_explore = <<>>
    /\ parent_map = NoMap
    /\ num_iterations = 0
    /\ next_hash = ""
    /\ swaps = <<>>
    /\ swap_order = <<>>
    /\ clicked_idx = 0
    /\ clicked_fields = <<>>
    /\ outcome = "none"
    /\ swappable = <<>>
    /\ solution_applied = FALSE
    /\ NoShuffle
    /\ NoTimers
    /\ NoCall

NextNeighbours == NeighboursCall

SpecNeighbours == InitNeighbours /\ [][NextNeighbours]_vars

-----------------------------------------------------------------------------
(* Properties of get_swappable_neighbours *)

OnBoard == width >= 1 /\ height >= 1 /\ empty_field_idx < width * height

\* the cells above, below, left and right of e that exist on the board
Up(e) == IF e - width >= 0 THEN <<e - width>> ELSE <<>>
Down(e) == IF e + width < width * height THEN <<e + width>> ELSE <<>>
Left(e) == IF e % width # 0 THEN <<e - 1>> ELSE <<>>
Right(e) == IF e % width # width - 1 THEN <<e + 1>> ELSE <<>>

\* the cell e lies in the top or bottom row, in the leftmost or rightmost column
OnRowEdge(e) == e \div width = 0 \/ e \div width = height - 1
OnColEdge(e) == e % width = 0 \/ e % width = width - 1

\* C10: for a cell of a board the returned list holds exactly the cells
\* orthogonally next to it, none reached across a row edge, in the order up,
\* down, left, right; with width, height >= 2 these are 2 cells for a corner,
\* 3 for another edge cell and 4 for an interior cell.
C10_NeighboursExact ==
    (pc = "done" /\ OnBoard) =>
        LET e == empty_field_idx
        IN  /\ swappable = Up(e) \o Down(e) \o Left(e) \o Right(e)
            /\ {swappable[i] : i \in 1..Len(swappable)}
                   = {j \in 0..(width * height - 1) : Adjacent(e, j, width, height)}
            /\ (width >= 2 /\ height >= 2) =>
                   Len(swappable) = IF OnRowEdge(e) /\ OnColEdge(e) THEN 2
                                    ELSE IF OnRowEdge(e) \/ OnColEdge(e) THEN 3
                                    ELSE 4

C10_Witness ==
    /\ pc = "done"
    /\ width = 3
    /\ height = 4
    /\ empty_field_idx = 4
    /\ swappable = <<1, 7, 3, 5>>

\* the call has ended, by returning or by panicking
NeighboursCalled == pc = "done" \/ pc = "panic"

\* C11: with a width or a height of 0 the call ends with an InvalidDimensions
\* error value for every empty_field_idx: it neither panics nor returns a list.
C11_InvalidDimensions ==
    (NeighboursCalled /\ (width = 0 \/ height = 0)) => outcome = "err"

-----------------------------------------------------------------------------
(* Properties of trigger_field *)

\* the last operation on the board was a click
Clicked == outcome # "none"

\* the cells next to idx that hold the empty field on board f
EmptyNeighbours(f, idx) ==
    {j \in 0..(Len(f) - 1) : Adjacent(idx, j, width, height) /\ f[j + 1] = U8_MAX}

\* the click is on an ordinary tile of the board that lies next to the empty field
LegalClick ==
    /\ clicked_idx < Len(clicked_fields)
    /\ clicked_fields[clicked_idx + 1] # U8_MAX
    /\ EmptyNeighbours(clicked_fields, clicked_idx) # {}

\* C7: on any board, square or not, a click on an ordinary tile next to the
\* empty field returns the board with exactly these two cells exchanged.
C7_ClickSwapsWithEmpty ==
    (Clicked /\ LegalClick) =>
        /\ outcome = "ok"
        /\ \E j \in EmptyNeighbours(clicked_fields, clicked_idx) :
               fields = AfterMoves(clicked_fields, << <<j, clicked_idx>> >>, 1)

\* C8: a click never fails, whatever the board and the clicked index, also an
\* index beyond the board, and an illegal click returns the board unchanged.
C8_ClickNeverFails ==
    Clicked =>
        /\ outcome = "ok"
        /\ ~LegalClick => fields = clicked_fields

\* C9: a click on the empty field, and a click on a cell none of whose
\* orthogonal neighbours holds the empty field, returns the board unchanged.
C9_NoOpClick ==
    (/\ Clicked
     /\ clicked_idx < Len(clicked_fields)
     /\ \/ clicked_fields[clicked_idx + 1] = U8_MAX
        \/ EmptyNeighbours(clicked_fields, clicked_idx) = {}) =>
        /\ outcome = "ok"
        /\ fields = clicked_fields

-----------------------------------------------------------------------------
(* get_shuffle_sequence(width, height, empty_field_idx, move_count): the     *)
(* function is imported from board.rs but is not part of the sources; the    *)
(* steps below follow the algorithm of the ShuffleSequencer (section 4.4).   *)

\* the swap that would undo the last swap of the sequence, if there is one
reverse_of_last(sequence) ==
    IF sequence = <<>> THEN None
    ELSE Some(<<sequence[Len(sequence)][2], sequence[Len(sequence)][1]>>)

\* the legal swaps from the virtual empty position, in the order of the neighbours
legal_swaps(w, h, empty) ==
    LET neighbours == get_swappable_neighbours(w, h, empty).value
    IN  [i \in 1..Len(neighbours) |-> <<empty, neighbours[i]>>]

\* SelectSeq with the test written out
RECURSIVE Without(_, _)
Without(list, excluded) ==
    IF list = <<>> THEN <<>>
    ELSE IF Some(list[1]) = excluded THEN Without(Tail(list), excluded)
    ELSE <<list[1]>> \o Without(Tail(list), excluded)

\* the reverse of the preceding swap is not excluded
candidates_all_legal(w, h, empty, sequence) == legal_swaps(w, h, empty)

\* the swaps the random source picks among: the legal ones without the reverse
\* of the preceding swap, unless that leaves none
candidates(w, h, empty, sequence) ==
    LET legal == legal_swaps(w, h, empty)
        remaining == Without(legal, reverse_of_last(sequence))
    IN  IF remaining = <<>> THEN legal ELSE remaining

\* one iteration: a candidate is picked, appended, and the virtual empty
\* position moves to the neighbour just swapped
ShuffleStep ==
    /\ pc = "shuffle"
    /\ Len(shuffle_sequence) < move_count
    /\ LET among == candidates(width, height, virtual_empty, shuffle_sequence)
       IN  \E i \in 1..Len(among) :
              /\ shuffle_sequence' = Append(shuffle_sequence, among[i])
              /\ virtual_empty' = among[i][2]
    /\ UNCHANGED <<width, height, fields, pc, from_solved, num_swaps, solver_vars,
                   click_vars, neighbour_vars, solution_applied, move_count, timer_vars,
                   call_vars>>

\* move_count iterations are done: the sequence is returned
ShuffleReturn ==
    /\ pc = "shuffle"
    /\ Len(shuffle_sequence) = move_count
    /\ pc' = "done"
    /\ UNCHANGED <<width, height, fields, from_solved, num_swaps, solver_vars,
                   click_vars, neighbour_vars, solution_applied, shuffle_vars, timer_vars,
                   call_vars>>

\* an iteration on a board without any legal swap (a single cell): section 4.4
\* does not say how it ends, so the call may return what it has or panic
ShuffleStuck ==
    /\ pc = "shuffle"
    /\ Len(shuffle_sequence) < move_count
    /\ candidates(width, height, virtual_empty, shuffle_sequence) = <<>>
    /\ pc' \in {"done", "panic"}
    /\ UNCHANGED <<width, height, fields, from_solved, num_swaps, solver_vars,
                   click_vars, neighbour_vars, solution_applied, shuffle_vars, timer_vars,
                   call_vars>>

InitShuffle ==
    /\ width \in 1..ShuffleMaxWidth
    /\ height \in 1..ShuffleMaxHeight
    /\ empty_field_idx \in 0..(width * height - 1)
    /\ move_count \in 0..MaxMoveCount
    /\ virtual_empty = empty_field_idx
    /\ shuffle_sequence = <<>>
    /\ pc = "shuffle"
    /\ fields = <<>>
    /\ from_solved = TRUE
    /\ num_swaps = 0
    /\ states_to_explore = <<>>
    /\ parent_map = NoMap
    /\ num_iterations = 0
    /\ next_hash = ""
    /\ swaps = <<>>
    /\ swap_order = <<>>
    /\ clicked_idx = 0
    /\ clicked_fields = <<>>
    /\ outcome = "none"
    /\ swappable = <<>>
    /\ solution_applied = FALSE
    /\ NoTimers
    /\ NoCall

NextShuffle ==
    \/ ShuffleStep
    \/ ShuffleReturn
    \/ ShuffleStuck

SpecShuffle == InitShuffle /\ [][NextShuffle]_vars

\* the virtual empty position before the i-th swap (1-based) of the sequence
EmptyBefore(i) == IF i = 1 THEN empty_field_idx ELSE shuffle_sequence[i - 1][2]

\* C12: on a board of two cells or more the returned sequence has exactly
\* move_count swaps, and each swap (a, b) has a at the virtual empty position
\* left by the swaps before it (empty_field_idx for the first) and b on the
\* board, orthogonally next to a, whatever the random source picks.
C12_ShuffleMovesLegal ==
    (Returned /\ width * height >= 2) =>
        /\ Len(shuffle_sequence) = move_count
        /\ \A i \in 1..Len(shuffle_sequence) :
              /\ shuffle_sequence[i][1] = EmptyBefore(i)
              /\ Adjacent(shuffle_sequence[i][1], shuffle_sequence[i][2], width, height)

C12_Witness ==
    /\ Returned
    /\ width = 2
    /\ height = 3
    /\ empty_field_idx = 5
    /\ shuffle_sequence = << <<5, 3>>, <<3, 2>>, <<2, 0>>, <<0, 1>> >>

\* swap i of the sequence is the reverse of swap i - 1
ReversesPreceding(i) ==
    /\ shuffle_sequence[i][1] = shuffle_sequence[i - 1][2]
    /\ shuffle_sequence[i][2] = shuffle_sequence[i - 1][1]

\* the only cell next to the virtual empty position before swap i is b
SoleLegalSwap(i, b) ==
    \A c \in 0..(width * height - 1) : Adjacent(EmptyBefore(i), c, width, height) => c = b

\* C13: a swap of the sequence reverses the one before it only where that
\* reverse is the only legal swap, and with a width and a height of 2 or more
\* no swap reverses the one before it. Checked on every prefix of the sequence.
C13_NoTrivialUndo ==
    \A i \in 2..Len(shuffle_sequence) :
        ReversesPreceding(i) =>
            /\ SoleLegalSwap(i, shuffle_sequence[i][2])
            /\ ~(width >= 2 /\ height >= 2)

C13_Witness ==
    /\ Returned
    /\ width = 3
    /\ height = 1
    /\ empty_field_idx = 1
    /\ shuffle_sequence = << <<1, 0>>, <<0, 1>>, <<1, 2>>, <<2, 1>> >>

-----------------------------------------------------------------------------
(* Properties of the board under clicks, shuffle swaps and solutions *)

\* the number of cells of board f that hold v
Count(f, v) == Cardinality({i \in 1..Len(f) : f[i] = v})

\* C14: from the solved board, after any clicks, shuffle swaps and applied
\* solutions, the board has width * height cells, holds every tile
\* 0 .. N-2 exactly once and holds the empty field exactly once.
C14_BoardStaysPermutation ==
    /\ Len(fields) = width * height
    /\ \A k \in 0..(width * height - 2) : Count(fields, k) = 1
    /\ Count(fields, U8_MAX) = 1

C14_Witness ==
    /\ solution_applied
    /\ width = 2
    /\ height = 2
    /\ outcome = "ok"
    /\ clicked_fields = <<U8_MAX, 0, 2, 1>>
    /\ clicked_idx = 2
    /\ fields = Solved(4)

\* C20: solve called on the board its own solution was applied to returns
\* the empty list.
C20_SolveIdempotent ==
    (Returned /\ solution_applied) => swap_order = <<>>

C20_Witness ==
    /\ Returned
    /\ solution_applied
    /\ from_solved
    /\ num_swaps = 3
    /\ width = 3
    /\ height = 3
    /\ swap_order = <<>>

-----------------------------------------------------------------------------
(* initialize_fields called on its own *)

InitializeFieldsCall ==
    /\ pc = "input"
    /\ result' = initialize_fields_built(arg_num_elements, overflow_checks)
    /\ pc' = IF result'.panicked THEN "panic" ELSE "done"
    /\ outcome' = IF result'.panicked THEN "panic" ELSE "ok"
    /\ UNCHANGED <<width, height, fields, from_solved, num_swaps, solver_vars,
                   clicked_idx, clicked_fields, neighbour_vars, solution_applied,
                   shuffle_vars, timer_vars, overflow_checks, arg_num_elements, arg_row, arg_col,
                   arg_idx, arg_value>>

\* every variable that no call of a function on its own reads or writes
NoComponent ==
    /\ width = 0
    /\ height = 0
    /\ fields = <<>>
    /\ from_solved = TRUE
    /\ num_swaps = 0
    /\ states_to_explore = <<>>
    /\ parent_map = NoMap
    /\ num_iterations = 0
    /\ next_hash = ""
    /\ swaps = <<>>
    /\ swap_order = <<>>
    /\ clicked_idx = 0
    /\ clicked_fields = <<>>
    /\ outcome = "none"
    /\ empty_field_idx = 0
    /\ swappable = <<>>
    /\ solution_applied = FALSE
    /\ NoShuffle
    /\ NoTimers

InitFields ==
    /\ NoComponent
    /\ pc = "input"
    /\ overflow_checks \in BOOLEAN
    /\ arg_num_elements \in 0..MaxNumElements
    /\ arg_row = 0
    /\ arg_col = 0
    /\ arg_idx = 0
    /\ arg_value = 0
    /\ result = Returns(<<>>)

NextFields == InitializeFieldsCall

SpecFields == InitFields /\ [][NextFields]_vars

\* the call of a function on its own has ended, by returning or by panicking
Called == pc = "done" \/ pc = "panic"

\* f is the solved board of n cells: n cells, tile k in cell k, and the empty
\* field in the last cell and in no other
CanonicalSolved(f, n) ==
    /\ Len(f) = n
    /\ \A k \in 0..(n - 2) : f[k + 1] = k
    /\ f[n] = U8_MAX
    /\ \A i \in 1..(n - 1) : f[i] # U8_MAX

\* C15: for every cell count N from 1 to 256, initialize_fields(N) returns
\* N cells with tile k in cell k for k in 0 .. N-2 and the empty field (255)
\* in the last cell N-1 and nowhere else.
C15_SolvedBoardOfN ==
    (Called /\ 1 <= arg_num_elements /\ arg_num_elements <= U8_MAX + 1) =>
        /\ ~result.panicked
        /\ CanonicalSolved(result.value, arg_num_elements)

\* the same for the cell counts 1 to 255
C15_UpTo255 ==
    (Called /\ 1 <= arg_num_elements /\ arg_num_elements <= U8_MAX) =>
        /\ ~result.panicked
        /\ CanonicalSolved(result.value, arg_num_elements)

-----------------------------------------------------------------------------
(* slide_puzzle.rs: the board is built on create and on WidthUpdate and     *)
(* HeightUpdate; a panic ends the component                                 *)

\* the given width and height, the cells of the call of initialize_fields, and
\* how the component is left
Rebuild(w, h) ==
    LET built == initialize_fields_built(w * h, overflow_checks)
    IN  /\ width' = w
        /\ height' = h
        /\ IF built.panicked
           THEN /\ pc' = "panic"
                /\ outcome' = "panic"
                /\ UNCHANGED fields
           ELSE /\ pc' = "input"
                /\ outcome' = "ok"
                /\ fields' = built.value

\* SlidePuzzle::create
Create ==
    /\ pc = "props"
    /\ Rebuild(width, height)
    /\ UNCHANGED <<from_solved, num_swaps, solver_vars, clicked_idx, clicked_fields,
                   neighbour_vars, solution_applied, shuffle_vars, timer_vars, call_vars>>

\* SlidePuzzleMsg::WidthUpdate(width)
WidthUpdate ==
    /\ pc = "input"
    /\ \E w \in 0..MaxSide :
          IF w # width THEN Rebuild(w, height)
          ELSE UNCHANGED <<width, height, fields, pc, outcome>>
    /\ UNCHANGED <<from_solved, num_swaps, solver_vars, clicked_idx, clicked_fields,
                   neighbour_vars, solution_applied, shuffle_vars, timer_vars, call_vars>>

\* SlidePuzzleMsg::HeightUpdate(height)
HeightUpdate ==
    /\ pc = "input"
    /\ \E h \in 0..MaxSide :
          IF h # height THEN Rebuild(width, h)
          ELSE UNCHANGED <<width, height, fields, pc, outcome>>
    /\ UNCHANGED <<from_solved, num_swaps, solver_vars, clicked_idx, clicked_fields,
                   neighbour_vars, solution_applied, shuffle_vars, timer_vars, call_vars>>

InitResize ==
    /\ width \in 0..MaxSide
    /\ height \in 0..MaxSide
    /\ overflow_checks \in BOOLEAN
    /\ pc = "props"
    /\ fields = <<>>
    /\ from_solved = TRUE
    /\ num_swaps = 0
    /\ states_to_explore = <<>>
    /\ parent_map = NoMap
    /\ num_iterations = 0
    /\ next_hash = ""
    /\ swaps = <<>>
    /\ swap_order = <<>>
    /\ clicked_idx = 0
    /\ clicked_fields = <<>>
    /\ outcome = "none"
    /\ empty_field_idx = 0
    /\ swappable = <<>>
    /\ solution_applied = FALSE
    /\ NoShuffle
    /\ NoTimers
    /\ arg_num_elements = 0
    /\ arg_row = 0
    /\ arg_col = 0
    /\ arg_idx = 0
    /\ arg_value = 0
    /\ result = Returns(<<>>)

NextResize ==
    \/ Create
    \/ WidthUpdate
    \/ HeightUpdate

SpecResize == InitResize /\ [][NextResize]_vars

\* the component has been created
Created == pc = "input" \/ pc = "panic"

\* the width and height do not make a board: no cell, or more cells than the
\* 256 the tile ids allow
InvalidDimensions == width * height = 0 \/ width * height > U8_MAX + 1

\* C16: with a width * height of 0 or of more than 256 the creation of the
\* board, on create and on a width or height update, ends with an
\* InvalidDimensions error, and a board that is built never has fewer cells
\* than width * height.
C16_NoSilentClamp ==
    Created =>
        /\ InvalidDimensions => outcome = "err"
        /\ outcome = "ok" => Len(fields) >= width * height

-----------------------------------------------------------------------------
(* get_idx_of_val called on its own *)

GetIdxOfValCall ==
    /\ pc = "input"
    /\ result' = get_idx_of_val(fields, arg_value)
    /\ pc' = "done"
    /\ outcome' = "ok"
    /\ UNCHANGED <<width, height, fields, from_solved, num_swaps, solver_vars,
                   clicked_idx, clicked_fields, neighbour_vars, solution_applied,
                   shuffle_vars, timer_vars, overflow_checks, arg_num_elements, arg_row, arg_col,
                   arg_idx, arg_value>>

\* the slices of length n over the values 0 .. MaxSliceValue
SlicesOfLen(n) == [1..n -> 0..MaxSliceValue]

InitIdxOfVal ==
    /\ \E n \in 0..MaxSliceLen : fields \in SlicesOfLen(n)
    /\ arg_value \in 0..MaxSliceValue
    /\ pc = "input"
    /\ width = 0
    /\ height = 0
    /\ from_solved = TRUE
    /\ num_swaps = 0
    /\ states_to_explore = <<>>
    /\ parent_map = NoMap
    /\ num_iterations = 0
    /\ next_hash = ""
    /\ swaps = <<>>
    /\ swap_order = <<>>
    /\ clicked_idx = 0
    /\ clicked_fields = <<>>
    /\ outcome = "none"
    /\ empty_field_idx = 0
    /\ swappable = <<>>
    /\ solution_applied = FALSE
    /\ NoShuffle
    /\ NoTimers
    /\ overflow_checks = TRUE
    /\ arg_num_elements = 0
    /\ arg_row = 0
    /\ arg_col = 0
    /\ arg_idx = 0
    /\ result = Returns(<<>>)

NextIdxOfVal == GetIdxOfValCall

SpecIdxOfVal == InitIdxOfVal /\ [][NextIdxOfVal]_vars

\* the 0-based indices of the cells of slice f that hold v
Occurrences(f, v) == {i \in 0..(Len(f) - 1) : f[i + 1] = v}

-----------------------------------------------------------------------------
(* in_bounds of utils.rs and of board.rs called on their own, with signed   *)
(* coordinates (isize)                                                      *)

\* a call of the named function has returned v
ReturnedBy(function, v) == [function |-> function, panicked |-> FALSE, value |-> v]

\* a call of the named function has panicked
PanickedIn(function) == [function |-> function, panicked |-> TRUE, value |-> <<>>]

\* the variables a call of a geometry function on its own leaves alone
geometry_frame == <<width, height, fields, from_solved, num_swaps, solver_vars,
                    clicked_idx, clicked_fields, neighbour_vars, solution_applied,
                    shuffle_vars, timer_vars, overflow_checks, arg_num_elements, arg_row, arg_col,
                    arg_idx, arg_value>>

UtilsInBoundsCall ==
    /\ pc = "input"
    /\ result' = ReturnedBy("utils::in_bounds", in_bounds(arg_row, arg_col, width, height))
    /\ pc' = "done"
    /\ outcome' = "ok"
    /\ UNCHANGED geometry_frame

BoardInBoundsCall ==
    /\ pc = "input"
    /\ result' = ReturnedBy("board::in_bounds",
                            board_in_bounds(arg_row, arg_col, width, height))
    /\ pc' = "done"
    /\ outcome' = "ok"
    /\ UNCHANGED geometry_frame

\* the variables no call of a geometry function reads
NoBoard ==
    /\ fields = <<>>
    /\ from_solved = TRUE
    /\ num_swaps = 0
    /\ states_to_explore = <<>>
    /\ parent_map = NoMap
    /\ num_iterations = 0
    /\ next_hash = ""
    /\ swaps = <<>>
    /\ swap_order = <<>>
    /\ clicked_idx = 0
    /\ clicked_fields = <<>>
    /\ outcome = "none"
    /\ empty_field_idx = 0
    /\ swappable = <<>>
    /\ solution_applied = FALSE
    /\ NoShuffle
    /\ NoTimers
    /\ overflow_checks = TRUE
    /\ arg_num_elements = 0
    /\ arg_value = 0
    /\ result = Returns(<<>>)

InitInBounds ==
    /\ width \in 0..GeoMaxWidth
    /\ height \in 0..GeoMaxHeight
    /\ arg_row \in (0 - MaxOutside)..(GeoMaxHeight + MaxOutside)
    /\ arg_col \in (0 - MaxOutside)..(GeoMaxWidth + MaxOutside)
    /\ arg_idx = 0
    /\ pc = "input"
    /\ NoBoard

NextInBounds ==
    \/ UtilsInBoundsCall
    \/ BoardInBoundsCall

SpecInBounds == InitInBounds /\ [][NextInBounds]_vars

\* C18: in_bounds(row, col, width, height) of utils.rs and of board.rs returns
\* true exactly when 0 <= row < height and 0 <= col < width, also for a
\* negative row or col and for a width different from the height.
C18_InBoundsExact ==
    Called =>
        (result.value <=> (/\ 0 <= arg_row
                           /\ arg_row < height
                           /\ 0 <= arg_col
                           /\ arg_col < width))

\* the same for the in_bounds of utils.rs alone
C18_UtilsInBoundsExact ==
    (Called /\ result.function = "utils::in_bounds") =>
        (result.value <=> (/\ 0 <= arg_row
                           /\ arg_row < height
                           /\ 0 <= arg_col
                           /\ arg_col < width))

-----------------------------------------------------------------------------
(* get_row_col_from_idx and get_idx_from_row_col of utils.rs and of board.rs *)
(* called one after the other, on unsigned arguments: / and % of Rust are    *)
(* \div and % there, and a width of 0 panics                                 *)

\* a conversion and the conversion back; via is the value in between
RoundTrip(function, via, back) ==
    /\ pc = "input"
    /\ IF width = 0
       THEN /\ result' = PanickedIn(function)
            /\ pc' = "panic"
            /\ outcome' = "panic"
       ELSE /\ result' = [function |-> function, panicked |-> FALSE,
                          via |-> via, value |-> back]
            /\ pc' = "done"
            /\ outcome' = "ok"
    /\ UNCHANGED geometry_frame

\* idx to (row, col) and back
UtilsIdxRoundTrip ==
    LET row_col == get_row_col_from_idx(arg_idx, width)
    IN  RoundTrip("utils: idx", row_col,
                  get_idx_from_row_col(row_col[1], row_col[2], width))

BoardIdxRoundTrip ==
    LET row_col == board_get_row_col_from_idx(arg_idx, width)
    IN  RoundTrip("board: idx", row_col,
                  board_get_idx_from_row_col(row_col[1], row_col[2], width))

\* (row, col) to idx and back
UtilsCoordsRoundTrip ==
    LET i == get_idx_from_row_col(arg_row, arg_col, width)
    IN  RoundTrip("utils: row, col", i, get_row_col_from_idx(i, width))

BoardCoordsRoundTrip ==
    LET i == board_get_idx_from_row_col(arg_row, arg_col, width)
    IN  RoundTrip("board: row, col", i, board_get_row_col_from_idx(i, width))

InitConversions ==
    /\ width \in 0..GeoMaxWidth
    /\ height = 0
    /\ arg_idx \in 0..(GeoMaxWidth * GeoMaxHeight + MaxBeyond)
    /\ arg_row \in 0..GeoMaxHeight
    /\ arg_col \in 0..GeoMaxWidth
    /\ pc = "input"
    /\ NoBoard

NextConversions ==
    \/ UtilsIdxRoundTrip
    \/ BoardIdxRoundTrip
    \/ UtilsCoordsRoundTrip
    \/ BoardCoordsRoundTrip

SpecConversions == InitConversions /\ [][NextConversions]_vars

\* C19: the conversions of utils.rs and of board.rs are inverse to each other:
\* for a width > 0 and an idx >= 0 the index of the coordinates of idx is idx,
\* the coordinates being a row and a col < width with row * width + col = idx,
\* and for a row >= 0 and 0 <= col < width the coordinates of the index of
\* (row, col) are (row, col).
C19_ConversionsInverse ==
    (Called /\ width > 0) =>
        /\ ~result.panicked
        /\ result.function \in {"utils: idx", "board: idx"} =>
              /\ result.value = arg_idx
              /\ result.via[1] >= 0
              /\ result.via[2] \in 0..(width - 1)
              /\ result.via[1] * width + result.via[2] = arg_idx
        /\ (result.function \in {"utils: row, col", "board: row, col"} /\ arg_col < width) =>
              result.value = <<arg_row, arg_col>>

C19_Witness ==
    /\ Called
    /\ width = 3
    /\ arg_row = 2
    /\ arg_col = 1
    /\ result.function = "board: row, col"
    /\ result.via = 7
    /\ result.value = <<2, 1>>

-----------------------------------------------------------------------------
(* Properties of the search of find_swap_order *)

\* the search loop is running
Searching == pc = "search"

\* C21: during the search an entry of parent_map is written only for a key
\* that has none: the entry of a key is never replaced, also not when the
\* same state is popped from the frontier a second time.
C21_FirstInsertWins ==
    [][Searching => \A k \in DOMAIN parent_map : parent_map'[k] = parent_map[k]]_vars

\* the keys of a set of boards
Keys(boards) == {as_string_hash(f) : f \in boards}

\* the least number of legal swaps from the input to each board whose key is
\* wanted: known maps the keys of the boards less than d swaps away to their
\* distance, and level holds the boards exactly d swaps away
RECURSIVE SwapDistances(_, _, _, _)
SwapDistances(known, level, d, wanted) ==
    IF level = {} \/ wanted \subseteq DOMAIN known THEN known
    ELSE LET reached == [k \in (DOMAIN known) \cup Keys(level) |->
                            IF k \in DOMAIN known THEN known[k] ELSE d]
             next == {g \in LegalSuccessors(level, width, height) :
                         as_string_hash(g) \notin DOMAIN reached}
         IN  SwapDistances(reached, next, d + 1, wanted)

\* the keys in the map and in the frontier
KeysOfSearch ==
    (DOMAIN parent_map) \cup {states_to_explore[i].hash : i \in 1..Len(states_to_explore)}

\* the distance from the input of every board the search has met
DistanceFromInput == SwapDistances(NoMap, {fields}, 0, KeysOfSearch)

\* the number of entries on the chain of parents from key back to the input,
\* following at most fuel entries; the entry of the input itself is not counted
RECURSIVE ChainLength(_, _, _)
ChainLength(map, key, fuel) ==
    IF key = initial_hash \/ key \notin DOMAIN map \/ fuel = 0 THEN 0
    ELSE 1 + ChainLength(map, map[key][1], fuel - 1)

\* the search has started and the solver has not been left
InSolver == pc \in {"search", "extract", "trace"} \/ (pc = "done" /\ num_iterations > 0)

\* C22: the states are popped in the order of their distance from the input:
\* no state waiting in the frontier is nearer to the input than a state
\* popped before or than a state waiting in front of it; and the chain of
\* parents recorded for a key is as long as the least number of swaps from
\* the input to its state.
C22_BreadthFirstOrder ==
    InSolver =>
        LET distance == DistanceFromInput
            frontier == states_to_explore
        IN  /\ KeysOfSearch \subseteq DOMAIN distance
            /\ \A k \in DOMAIN parent_map :
                  /\ ChainLength(parent_map, k, Cardinality(DOMAIN parent_map)) = distance[k]
                  /\ \A i \in 1..Len(frontier) : distance[k] <= distance[frontier[i].hash]
            /\ \A i, j \in 1..Len(frontier) :
                  i < j => distance[frontier[i].hash] <= distance[frontier[j].hash]

C22_Witness ==
    /\ Searching
    /\ width = 3
    /\ height = 3
    /\ num_iterations >= 8
    /\ \E i, j \in 1..Len(states_to_explore) :
          /\ i < j
          /\ DistanceFromInput[states_to_explore[i].hash] = 2
          /\ DistanceFromInput[states_to_explore[j].hash] = 3

\* the swaps the search makes from the tuple
ExpandedSwaps(tuple) ==
    {reachable_tuples(tuple)[i].last_swap : i \in 1..Len(reachable_tuples(tuple))}

\* the legal swaps of board f: the empty field with a cell next to it
LegalSwaps(f) ==
    {move \in (0..(Len(f) - 1)) \X (0..(Len(f) - 1)) : LegalMove(f, move, width, height)}

\* C23: in every tuple of the frontier, the seed with its swap (e, e)
\* included, the second cell of the last swap holds the empty field of the
\* tuple's fields, and the swaps made from that cell are exactly the legal
\* swaps of these fields.
C23_LastSwapHoldsEmpty ==
    Searching =>
        \A i \in 1..Len(states_to_explore) :
            LET tuple == states_to_explore[i]
            IN  /\ tuple.fields[tuple.last_swap[2] + 1] = U8_MAX
                /\ ExpandedSwaps(tuple) = LegalSwaps(tuple.fields)

C23_Witness ==
    /\ Searching
    /\ width = 3
    /\ height = 3
    /\ Len(states_to_explore) >= 4
    /\ states_to_explore[1].last_swap = <<5, 4>>

-----------------------------------------------------------------------------
(* find_swap_order on any fields of width * height cells that hold an empty *)
(* field, with every step of the function taken once it can be taken        *)

\* the fields of n cells over the tiles and the empty field, tiles repeated or
\* left out and the empty field repeated, that hold an empty field
FieldsWithEmpty(n) ==
    IF n <= MaxMalformedCells
    THEN {f \in [1..n -> (0..(n - 2)) \cup {U8_MAX}] : \E i \in 1..n : f[i] = U8_MAX}
    ELSE {}

\* the boards up to k legal swaps away from the solved board
RECURSIVE ScrambledBoards(_, _, _)
ScrambledBoards(w, h, k) ==
    IF k = 0 THEN {initialize_fields(w * h)}
    ELSE LET nearer == ScrambledBoards(w, h, k - 1)
         IN  nearer \cup LegalSuccessors(nearer, w, h)

InitTerminate ==
    /\ width \in 1..MaxWidth
    /\ height \in 1..MaxHeight
    /\ width * height <= MaxTerminateCells
    /\ \/ /\ fields \in ScrambledBoards(width, height, MaxTerminateScramble)
          /\ from_solved = TRUE
       \/ /\ fields \in FieldsWithEmpty(width * height)
          /\ from_solved = FALSE
    /\ pc = "input"
    /\ num_swaps = 0
    /\ states_to_explore = <<>>
    /\ parent_map = NoMap
    /\ num_iterations = 0
    /\ next_hash = ""
    /\ swaps = <<>>
    /\ swap_order = <<>>
    /\ clicked_idx = 0
    /\ clicked_fields = <<>>
    /\ outcome = "none"
    /\ empty_field_idx = 0
    /\ swappable = <<>>
    /\ solution_applied = FALSE
    /\ NoShuffle
    /\ NoTimers
    /\ NoCall

\* the function is synchronous: once called it runs on to its return
SolverRuns == WF_vars(SearchStep \/ FrontierEmpty \/ ExtractPath \/ TraceStep)

NextTerminate ==
    \/ SolveCall
    \/ SearchStep
    \/ FrontierEmpty
    \/ ExtractPath
    \/ TraceStep

SpecTerminate == InitTerminate /\ [][NextTerminate]_vars /\ SolverRuns

\* find_swap_order is called on a board a few legal swaps away from the solved
\* board, or on a board with two tiles exchanged
InitSearch ==
    /\ width \in 1..MaxSearchWidth
    /\ height \in 1..MaxSearchHeight
    /\ width * height <= MaxSearchCells
    /\ \/ /\ fields \in ScrambledBoards(width, height, MaxSearchScramble)
          /\ from_solved = TRUE
       \/ /\ fields \in MalformedBoards(width * height)
          /\ from_solved = FALSE
    /\ pc = "input"
    /\ num_swaps = 0
    /\ states_to_explore = <<>>
    /\ parent_map = NoMap
    /\ num_iterations = 0
    /\ next_hash = ""
    /\ swaps = <<>>
    /\ swap_order = <<>>
    /\ clicked_idx = 0
    /\ clicked_fields = <<>>
    /\ outcome = "none"
    /\ empty_field_idx = 0
    /\ swappable = <<>>
    /\ solution_applied = FALSE
    /\ NoShuffle
    /\ NoTimers
    /\ NoCall

SpecSearch == InitSearch /\ [][NextTerminate]_vars

\* the function has been called and has not returned
Solving == pc \in {"search", "extract", "trace"}

\* C24: on all fields of width * height cells that hold an empty field,
\* solvable or not, the call returns: the search ends with an empty frontier
\* or with the popped target, and the trace back only ever stands on a key
\* that has an entry, never on the placeholder parent "" of the seed, and
\* reaches the entry whose parent is the input.
C24_SolveTerminates ==
    /\ [](pc = "trace" => (next_hash # "" /\ next_hash \in DOMAIN parent_map))
    /\ [](pc = "extract" => (states_to_explore = <<>> \/ target_hash \in DOMAIN parent_map))
    /\ Solving ~> Returned

C24_Witness ==
    /\ Returned
    /\ width = 2
    /\ height = 2
    /\ Len(swap_order) = 6
    /\ num_iterations > 6

-----------------------------------------------------------------------------
(* solver.rs: the second copy of find_swap_order, written as a function of  *)
(* its arguments                                                            *)

\* the while-let loop over the frontier: the parent map it leaves
RECURSIVE solver_rs_search(_, _, _, _, _)
solver_rs_search(frontier, map, w, h, target) ==
    IF frontier = <<>> THEN map
    ELSE LET cur == Head(frontier)
             inserted == MapInsert(map, cur.hash, <<cur.parent_hash, cur.last_swap>>)
             e == cur.last_swap[2]
             neighbours == get_swappable_neighbours(w, h, e).value
             reachable ==
                 [i \in 1..Len(neighbours) |->
                     LET next_fields == SliceSwap(cur.fields, e, neighbours[i])
                     IN  [fields |-> next_fields,
                          hash |-> as_string_hash(next_fields),
                          parent_hash |-> cur.hash,
                          last_swap |-> <<e, neighbours[i]>>]]
             unseen == SelectSeq(reachable, LAMBDA t : t.hash \notin DOMAIN inserted)
         IN  IF cur.hash = target THEN inserted
             ELSE solver_rs_search(Tail(frontier) \o unseen, inserted, w, h, target)

\* the trace back from next_hash: the swaps pushed, the last swap first
RECURSIVE solver_rs_trace(_, _, _, _)
solver_rs_trace(map, next, pushed, initial) ==
    IF next \notin DOMAIN map THEN pushed
    ELSE LET more == Append(pushed, map[next][2])
         IN  IF map[next][1] = initial THEN more
             ELSE solver_rs_trace(map, map[next][1], more, initial)

\* find_swap_order of solver.rs
solver_rs_find_swap_order(f, w, h) ==
    LET initial == as_string_hash(f)
        target == as_string_hash(initialize_fields(Len(f)))
        e == get_empty_field_idx(f)
        seed == [fields |-> f, hash |-> initial, parent_hash |-> "", last_swap |-> <<e, e>>]
        map == solver_rs_search(<<seed>>, NoMap, w, h, target)
        pushed == solver_rs_trace(map, target, <<>>, initial)
    IN  IF initial = target THEN <<>>
        ELSE IF target \notin DOMAIN map THEN <<>>
        ELSE [i \in 1..Len(pushed) |-> pushed[Len(pushed) + 1 - i]]

\* C25: the find_swap_order of solver.rs and the find_swap_order of
\* solver/optimal.rs return the same list for the same fields, width and height.
C25_SolverCopiesAgree ==
    Returned => swap_order = solver_rs_find_swap_order(fields, width, height)

C25_Witness ==
    /\ Returned
    /\ width = 3
    /\ height = 3
    /\ Len(swap_order) = 4
    /\ swap_order = solver_rs_find_swap_order(fields, width, height)

-----------------------------------------------------------------------------
(* slide_puzzle.rs: the component with its timeouts. A click on Shuffle     *)
(* Granular or on Solve computes a list of swaps and sets one timeout per   *)
(* swap (Timeout::new(i * 250) and Timeout::new(i * 500), never cancelled:  *)
(* timeout.forget()); a timeout that fires sends Swap((a, b)), and update   *)
(* handles it at once. Time passes in steps of 250 ms, and user events fall *)
(* on these steps.                                                          *)

\* the delays of the list descend
TimeoutsOfDescending(list, interval) ==
    [i \in 1..Len(list) |-> [delay |-> (Len(list) - i) * interval, swap |-> list[i]]]

\* the timeouts of the list, the i-th (0-based) due after i * interval ms
TimeoutsOf(list, interval) ==
    [i \in 1..Len(list) |-> [delay |-> (i - 1) * interval, swap |-> list[i]]]

\* one timeout is set: it fires after the pending ones that are due no later
RECURSIVE SetTimeout(_, _)
SetTimeout(queue, timeout) ==
    IF queue = <<>> THEN <<timeout>>
    ELSE IF Head(queue).delay <= timeout.delay
    THEN <<Head(queue)>> \o SetTimeout(Tail(queue), timeout)
    ELSE <<timeout>> \o queue

\* the timeouts of a list are set one after the other
RECURSIVE SetTimeouts(_, _)
SetTimeouts(queue, timeouts) ==
    IF timeouts = <<>> THEN queue
    ELSE SetTimeouts(SetTimeout(queue, Head(timeouts)), Tail(timeouts))

\* the lists get_shuffle_sequence can return for n more swaps after the list
\* so far (section 4.4); on a board without a legal swap the list ends early
RECURSIVE ShuffleSequences(_, _, _, _, _)
ShuffleSequences(w, h, e, n, sofar) ==
    LET among == candidates(w, h, e, sofar)
    IN  IF n = 0 \/ among = <<>> THEN {sofar}
        ELSE UNION {ShuffleSequences(w, h, among[i][2], n - 1, Append(sofar, among[i])) :
                        i \in 1..Len(among)}

\* the boards legal swaps lead to from the boards of the set
RECURSIVE SwapClosure(_, _, _)
SwapClosure(boards, w, h) ==
    LET more == boards \cup LegalSuccessors(boards, w, h)
    IN  IF more = boards THEN boards ELSE SwapClosure(more, w, h)

\* board f of width w and height h can be solved by legal swaps
Solvable(f, w, h) == Len(f) = w * h /\ f \in SwapClosure({Solved(w * h)}, w, h)

\* what every user event does besides its own effect
UserEvent ==
    /\ pc = "input"
    /\ num_swaps < MaxUserEvents
    /\ num_swaps' = num_swaps + 1

\* the variables of the other specifications
component_frame == <<states_to_explore, parent_map, num_iterations, next_hash, swaps,
                     neighbour_vars, solution_applied, move_count, virtual_empty,
                     call_vars>>

\* click on Solve: find_swap_order on the fields of the last render, and one
\* timeout per swap
SolveClick ==
    /\ UserEvent
    /\ LET solve_sequence == solver_rs_find_swap_order(fields, width, height)
       IN  /\ swap_order' = solve_sequence
           /\ pending' = SetTimeouts(pending, TimeoutsOf(solve_sequence, SOLVE_INTERVAL_MS))
    /\ quiet' = (pending = <<>> /\ Solvable(fields, width, height))
    /\ handled_swaps' = <<>>
    /\ from_solved' = Solvable(fields, width, height)
    /\ UNCHANGED <<width, height, fields, pc, click_vars, handled, shuffle_sequence,
                   component_frame>>

\* click on Shuffle Granular: get_shuffle_sequence from the empty field of the
\* last render, and one timeout per swap
GranularShuffleClick ==
    /\ UserEvent
    /\ \E sequence \in ShuffleSequences(width, height, get_empty_field_idx(fields),
                                        ShuffleClickMoves, <<>>) :
          /\ shuffle_sequence' = sequence
          /\ pending' = SetTimeouts(pending, TimeoutsOf(sequence, SHUFFLE_INTERVAL_MS))
    /\ quiet' = FALSE
    /\ UNCHANGED <<width, height, fields, pc, from_solved, click_vars, handled,
                   handled_swaps, swap_order, component_frame>>

\* click on Shuffle Quick: the swaps of the sequence are made on a copy of the
\* fields, which CompleteFieldsUpdate stores
QuickShuffleClick ==
    /\ UserEvent
    /\ \E sequence \in ShuffleSequences(width, height, get_empty_field_idx(fields),
                                        ShuffleClickMoves, <<>>) :
          /\ shuffle_sequence' = sequence
          /\ fields' = SwapMsgs(fields, sequence)
    /\ quiet' = FALSE
    /\ UNCHANGED <<width, height, pc, from_solved, click_vars, pending, handled,
                   handled_swaps, swap_order, component_frame>>

\* click on a field: ClickedField(clicked_idx) with the index of a field shown
FieldClick ==
    /\ UserEvent
    /\ \E i \in 0..(Len(fields) - 1) :
          LET returned == trigger_field(fields, width, height, i)
          IN  /\ clicked_idx' = i
              /\ clicked_fields' = fields
              /\ IF returned.panicked
                 THEN /\ outcome' = "panic"
                      /\ pc' = "panic"
                      /\ UNCHANGED fields
                 ELSE /\ outcome' = "ok"
                      /\ fields' = returned.value
                      /\ UNCHANGED pc
    /\ quiet' = FALSE
    /\ UNCHANGED <<width, height, from_solved, pending, handled, handled_swaps,
                   shuffle_sequence, swap_order, component_frame>>

\* the settings send WidthUpdate or HeightUpdate
SizeChange ==
    /\ UserEvent
    /\ \/ \E w \in 1..ComponentMaxSide :
             /\ w * height <= ComponentMaxCells
             /\ IF w # width THEN Rebuild(w, height)
                ELSE UNCHANGED <<width, height, fields, pc, outcome>>
       \/ \E h \in 1..ComponentMaxSide :
             /\ width * h <= ComponentMaxCells
             /\ IF h # height THEN Rebuild(width, h)
                ELSE UNCHANGED <<width, height, fields, pc, outcome>>
    /\ quiet' = FALSE
    /\ UNCHANGED <<from_solved, clicked_idx, clicked_fields, pending, handled,
                   handled_swaps, shuffle_sequence, swap_order, component_frame>>

\* the timeout due first fires: Swap((a, b)) is sent and handled; slice::swap
\* panics on an index beyond the fields
TimeoutFires ==
    /\ pc = "input"
    /\ pending # <<>>
    /\ Head(pending).delay = 0
    /\ LET a == Head(pending).swap[1]
           b == Head(pending).swap[2]
       IN  /\ handled' = Some([a |-> a, b |-> b, before |-> fields])
           /\ handled_swaps' = Append(handled_swaps, <<a, b>>)
           /\ IF a = b
              THEN UNCHANGED <<fields, pc>>
              ELSE IF a < Len(fields) /\ b < Len(fields)
              THEN /\ fields' = SwapMsg(a, b)
                   /\ UNCHANGED pc
              ELSE /\ pc' = "panic"
                   /\ UNCHANGED fields
    /\ pending' = Tail(pending)
    /\ UNCHANGED <<width, height, from_solved, num_swaps, click_vars, quiet,
                   shuffle_sequence, swap_order, component_frame>>

\* 250 ms pass while no timeout is due
TimePasses ==
    /\ pc = "input"
    /\ pending # <<>>
    /\ Head(pending).delay > 0
    /\ pending' = [i \in 1..Len(pending) |->
                      [pending[i] EXCEPT !.delay = @ - SHUFFLE_INTERVAL_MS]]
    /\ UNCHANGED <<width, height, fields, pc, from_solved, num_swaps, click_vars,
                   handled, handled_swaps, quiet, shuffle_sequence, swap_order, component_frame>>

InitComponent ==
    /\ width \in 1..ComponentMaxSide
    /\ height \in 1..ComponentMaxSide
    /\ width * height <= ComponentMaxCells
    /\ fields = initialize_fields(width * height)
    /\ from_solved = TRUE
    /\ pc = "input"
    /\ num_swaps = 0
    /\ states_to_explore = <<>>
    /\ parent_map = NoMap
    /\ num_iterations = 0
    /\ next_hash = ""
    /\ swaps = <<>>
    /\ swap_order = <<>>
    /\ clicked_idx = 0
    /\ clicked_fields = <<>>
    /\ outcome = "none"
    /\ empty_field_idx = 0
    /\ swappable = <<>>
    /\ solution_applied = FALSE
    /\ NoShuffle
    /\ NoTimers
    /\ NoCall

NextComponent ==
    \/ SolveClick
    \/ GranularShuffleClick
    \/ QuickShuffleClick
    \/ FieldClick
    \/ SizeChange
    \/ TimeoutFires
    \/ TimePasses

\* the event loop runs: a due timeout fires, and time passes
TimersRun == WF_vars(TimeoutFires) /\ WF_vars(TimePasses)

SpecComponent == InitComponent /\ [][NextComponent]_vars /\ TimersRun

\* the swaps of the pending timeouts, in the order they fire
PendingSwaps == [j \in 1..Len(pending) |-> pending[j].swap]

LegalSwapMsg(f, a, b, w, h) ==
    /\ a < Len(f)
    /\ b < Len(f)
    /\ Len(f) = w * h
    /\ Adjacent(a, b, w, h)
    /\ (f[a + 1] = U8_MAX \/ f[b + 1] = U8_MAX)

\* C27: whatever user events come between the timeouts of shuffles and
\* solutions, every Swap((a, b)) message handled by update is a legal move on
\* the board as it is when the message is handled.
C27_HandledSwapsLegal ==
    handled # <<>> =>
        LegalSwapMsg(handled[1].before, handled[1].a, handled[1].b, width, height)

====
